---- MODULE Spec2Model ----
(***************************************************************************)
(* TechInsight: hashed bag-of-words embedding, semantic search over the    *)
(* articles table, the article CRUD handlers and the CSV seeding script.   *)
(*                                                                         *)
(* Text is a sequence of Unicode code points.  A float32 component of an   *)
(* embedding is kept exactly, as a pair <<n, d>> that denotes n / sqrt(d): *)
(* n is the slot's token count and d the squared Euclidean norm the vector *)
(* was divided by (d = 1 when it was not divided).                         *)
(***************************************************************************)
EXTENDS Integers, Sequences, FiniteSets, Bags, TLC

(***************************************************************************)
(* Bounds of the model.                                                    *)
(***************************************************************************)
MaxTextLen == 3     \* longest text handed to embed_text on its own
MaxDim == 3         \* largest small dim; also the deployment's EMBEDDING_DIM
MaxRecords == 4     \* most records in the CSV
MaxBatch == 3       \* largest batch size
MaxAttempts == 2    \* runs of the seeding script, one after the other
MaxDeletes == 1     \* DELETE /articles/{id} calls
MaxDocs == 3        \* rows of the table a search ranks
MaxLimit == 3       \* largest limit of a search

(***************************************************************************)
(* Python values.                                                          *)
(***************************************************************************)
\* Python's None, kept apart from every str (no str holds code point -1).
None == <<-1>>

Returned(v) == [raised |-> "", value |-> v]
Raised(e) == [raised |-> e, value |-> <<>>]

\* int(os.getenv("EMBEDDING_DIM", "384")) when the variable is not set.
DefaultDim == 384

(***************************************************************************)
(* Library functions both embed_text definitions call.                     *)
(***************************************************************************)
\* str.lower(), on the code points the model draws text from.
Lower(s) == [i \in 1..Len(s) |-> IF s[i] \in 65..90 THEN s[i] + 32 ELSE s[i]]

\* re.findall for a pattern "[class 1]+|[class 2]+": the maximal runs of one
\* class, left to right; cls[i] is the class of s[i], 0 for neither.
RECURSIVE ReScan(_, _, _, _, _)
ReScan(s, cls, i, cur, acc) ==
  LET closed == IF cur = <<>> THEN acc ELSE Append(acc, cur)
  IN IF i > Len(s) THEN closed
     ELSE IF cls[i] = 0 THEN ReScan(s, cls, i + 1, <<>>, closed)
     ELSE IF cur # <<>> /\ cls[i - 1] = cls[i]
          THEN ReScan(s, cls, i + 1, Append(cur, s[i]), acc)
          ELSE ReScan(s, cls, i + 1, <<s[i]>>, closed)

ReFindall(s, cls) == ReScan(s, cls, 1, <<>>, <<>>)

\* hashlib.blake2b(token.encode("utf-8"), digest_size=8).digest(): the eight
\* digest bytes of every token the model's texts can hold.
Blake2b8(token) ==
  CASE token = <<97>> -> <<64, 248, 158, 57, 91, 102, 66, 47>>
    [] token = <<95>> -> <<81, 110, 107, 36, 126, 14, 171, 149>>
    [] token = <<12354>> -> <<48, 138, 188, 43, 37, 244, 235, 34>>
    [] token = <<97, 97>> -> <<2, 159, 76, 30, 203, 58, 9, 114>>
    [] token = <<97, 95>> -> <<248, 46, 167, 220, 18, 69, 84, 123>>
    [] token = <<95, 97>> -> <<114, 38, 184, 24, 54, 200, 50, 200>>
    [] token = <<95, 95>> -> <<168, 35, 99, 216, 11, 230, 171, 73>>
    [] token = <<12354, 12354>> -> <<13, 48, 32, 201, 21, 18, 209, 4>>
    [] token = <<97, 97, 97>> -> <<10, 242, 177, 168, 21, 72, 242, 168>>
    [] token = <<97, 97, 95>> -> <<209, 93, 234, 61, 19, 236, 70, 92>>
    [] token = <<97, 95, 97>> -> <<200, 217, 44, 167, 78, 124, 148, 162>>
    [] token = <<97, 95, 95>> -> <<15, 84, 79, 240, 219, 145, 18, 10>>
    [] token = <<95, 97, 97>> -> <<245, 205, 144, 118, 157, 95, 20, 103>>
    [] token = <<95, 97, 95>> -> <<159, 167, 11, 66, 224, 197, 224, 160>>
    [] token = <<95, 95, 97>> -> <<227, 196, 13, 32, 106, 176, 112, 190>>
    [] token = <<95, 95, 95>> -> <<94, 102, 105, 215, 246, 116, 67, 158>>
    [] token = <<12354, 12354, 12354>> -> <<166, 192, 22, 188, 51, 219, 123, 93>>
    [] token = <<97, 97, 97, 97>> -> <<229, 170, 240, 204, 139, 150, 79, 180>>
    [] token = <<97, 97, 97, 95>> -> <<251, 133, 201, 170, 103, 226, 99, 172>>
    [] token = <<97, 97, 95, 97>> -> <<209, 15, 156, 16, 212, 190, 245, 82>>
    [] token = <<97, 97, 95, 95>> -> <<98, 87, 188, 169, 41, 105, 161, 96>>
    [] token = <<97, 95, 97, 97>> -> <<123, 134, 22, 65, 16, 83, 98, 247>>
    [] token = <<97, 95, 97, 95>> -> <<186, 121, 152, 193, 222, 187, 74, 220>>
    [] token = <<97, 95, 95, 97>> -> <<249, 203, 78, 82, 115, 129, 231, 236>>
    [] token = <<97, 95, 95, 95>> -> <<28, 184, 109, 14, 194, 5, 201, 130>>
    [] token = <<95, 97, 97, 97>> -> <<181, 223, 72, 36, 87, 192, 214, 205>>
    [] token = <<95, 97, 97, 95>> -> <<30, 195, 110, 112, 68, 208, 22, 134>>
    [] token = <<95, 97, 95, 97>> -> <<142, 9, 143, 235, 98, 49, 221, 89>>
    [] token = <<95, 97, 95, 95>> -> <<190, 62, 110, 200, 213, 172, 162, 127>>
    [] token = <<95, 95, 97, 97>> -> <<210, 79, 47, 68, 87, 82, 92, 166>>
    [] token = <<95, 95, 97, 95>> -> <<13, 102, 232, 93, 205, 70, 1, 123>>
    [] token = <<95, 95, 95, 97>> -> <<180, 160, 13, 209, 9, 51, 144, 13>>
    [] token = <<95, 95, 95, 95>> -> <<42, 157, 218, 204, 75, 185, 109, 245>>
    [] token = <<12354, 12354, 12354, 12354>> -> <<60, 89, 151, 205, 7, 25, 22, 96>>

\* int.from_bytes(h, "little") % dim, by Horner's rule from the last byte.
RECURSIVE FromBytesLittleMod(_, _, _, _)
FromBytesLittleMod(h, dim, i, acc) ==
  IF i = 0 THEN acc
  ELSE FromBytesLittleMod(h, dim, i - 1, (acc * 256 + h[i]) % dim)

\* np.linalg.norm(vec) squared, vec a sequence of counts (summed by halves).
RECURSIVE SumSquares(_, _, _)
SumSquares(vec, lo, hi) ==
  IF lo > hi THEN 0
  ELSE IF lo = hi THEN vec[lo] * vec[lo]
  ELSE LET mid == (lo + hi) \div 2
       IN SumSquares(vec, lo, mid) + SumSquares(vec, mid + 1, hi)

NormSq(vec) == SumSquares(vec, 1, Len(vec))

(***************************************************************************)
(* app/main.py: TOKEN_RE and embed_text.                                   *)
(***************************************************************************)
\* TOKEN_RE = [A-Za-z0-9_]+ | [U+3040-U+30FF U+4E00-U+9FFF]+ : the alternative
\* (1 or 2) whose class holds code point c, 0 for neither.
main_TOKEN_RE(c) ==
  IF \/ c \in 65..90 \/ c \in 97..122 \/ c \in 48..57 \/ c = 95 THEN 1
  ELSE IF c \in 12352..12543 \/ c \in 19968..40959 THEN 2
  ELSE 0

\* for t in tokens: vec[int.from_bytes(blake2b(t), "little") % dim] += 1.0
RECURSIVE main_accumulate(_, _, _)
main_accumulate(tokens, dim, vec) ==
  IF tokens = <<>> THEN vec
  ELSE LET idx == FromBytesLittleMod(Blake2b8(Head(tokens)), dim, 8, 0)
       IN main_accumulate(Tail(tokens), dim, [vec EXCEPT ![idx + 1] = @ + 1])

main_tokens(text) ==
  LET s == Lower(IF text = None THEN <<>> ELSE text)
  IN ReFindall(s, [i \in 1..Len(s) |-> main_TOKEN_RE(s[i])])

main_embed_text(text, dim) ==
  LET vec == main_accumulate(main_tokens(text), dim, [i \in 1..dim |-> 0])
      norm2 == NormSq(vec)
  IN Returned([i \in 1..dim |-> <<vec[i], IF norm2 > 0 THEN norm2 ELSE 1>>])

(***************************************************************************)
(* app/scripts/import_articles.py: TOKEN_RE and embed_text.                *)
(***************************************************************************)
import_TOKEN_RE_NoUnderscore(c) ==
  IF \/ c \in 65..90 \/ c \in 97..122 \/ c \in 48..57 THEN 1
  ELSE IF c \in 12352..12543 \/ c \in 19968..40959 THEN 2
  ELSE 0

import_TOKEN_RE(c) ==
  IF \/ c \in 65..90 \/ c \in 97..122 \/ c \in 48..57 \/ c = 95 THEN 1
  ELSE IF c \in 12352..12543 \/ c \in 19968..40959 THEN 2
  ELSE 0

RECURSIVE import_accumulate(_, _, _)
import_accumulate(tokens, dim, vec) ==
  IF tokens = <<>> THEN vec
  ELSE LET idx == FromBytesLittleMod(Blake2b8(Head(tokens)), dim, 8, 0)
       IN import_accumulate(Tail(tokens), dim, [vec EXCEPT ![idx + 1] = @ + 1])

\* text.lower() on None raises AttributeError: there is no (text or "") here.
import_embed_text(text, dim) ==
  IF text = None THEN Raised("AttributeError")
  ELSE LET s == Lower(text)
           tokens == ReFindall(s, [i \in 1..Len(s) |-> import_TOKEN_RE(s[i])])
           vec == import_accumulate(tokens, dim, [i \in 1..dim |-> 0])
           norm2 == NormSq(vec)
       IN Returned([i \in 1..dim |-> <<vec[i], IF norm2 > 0 THEN norm2 ELSE 1>>])

(***************************************************************************)
(* State.                                                                  *)
(***************************************************************************)
VARIABLES
  text,           \* the argument of the embed_text calls under test
  dim,            \* their dim argument
  outMain,        \* what main.embed_text(text, dim) did, once called
  outImport,      \* what import_articles.embed_text(text, dim) did, once called
  EMBEDDING_DIM,  \* the deployment's EMBEDDING_DIM, read once from the environment
  RUN_SEED,       \* import_articles.RUN_SEED
  csvExists,      \* os.path.exists(CSV_PATH)
  stream,         \* the rows csv.DictReader yields from CSV_PATH
  BATCH_SIZE,     \* the batch size of the seeding script
  articles,       \* the committed rows of table articles, a bag
  seed,           \* seed[r]: the state of seeding process r
  create,         \* create[c]: the state of POST /articles call c
  update,         \* update[u]: the state of PUT /articles/{id} call u
  deletes,        \* DELETE /articles/{id} calls served so far
  search          \* the last GET /articles/search call and its hit list

embedVars == <<text, dim, outMain, outImport>>
configVars == <<EMBEDDING_DIM, RUN_SEED, csvExists, stream, BATCH_SIZE>>
vars == <<text, dim, outMain, outImport, EMBEDDING_DIM, RUN_SEED, csvExists,
          stream, BATCH_SIZE, articles, seed, create, update, deletes, search>>

NotCalled == Raised("not called")

Runs == {1, 2}
Creators == {1, 2}
Updaters == {1, 2}

(***************************************************************************)
(* Table articles (alembic/versions/0001_init.py).  A row keeps id, title, *)
(* content and embedding; author, category and the timestamps are carried  *)
(* through every statement unchanged and decide nothing here.              *)
(***************************************************************************)
\* A NULL embedding: the column is nullable.
NULL == <<>>

Ids(table) == {row.id : row \in BagToSet(table)}

RowsWithId(table, id) == {row \in BagToSet(table) : row.id = id}

RECURSIVE SeqToBag(_)
SeqToBag(rows) ==
  IF rows = <<>> THEN EmptyBag
  ELSE SetToBag({Head(rows)}) (+) SeqToBag(Tail(rows))

NoPrimaryKey(table, rows) == FALSE

\* id BIGINT PRIMARY KEY: inserting rows raises UniqueViolation when an id is
\* already in the table or twice among the rows.
UniqueViolation(table, rows) ==
  \E i \in 1..Len(rows) :
    \/ rows[i].id \in Ids(table)
    \/ \E j \in 1..Len(rows) : j # i /\ rows[j].id = rows[i].id

\* cur.executemany(INSERT ...) then conn.commit(): one transaction, all rows
\* or none.  An INSERT that meets an uncommitted row of the same id waits for
\* that transaction to end, so it acts as if run after it.
ExecuteManyCommit(table, rows) ==
  IF UniqueViolation(table, rows)
  THEN [ok |-> FALSE, table |-> table]
  ELSE [ok |-> TRUE, table |-> table (+) SeqToBag(rows)]

(***************************************************************************)
(* app/scripts/import_articles.py: main.                                   *)
(***************************************************************************)
\* int(row["id"]) on the id fields the model's CSV holds: None (a short row)
\* raises TypeError, anything but a run of decimal digits raises ValueError.
RECURSIVE DecimalValue(_, _)
DecimalValue(field, i) ==
  IF i = 0 THEN 0 ELSE 10 * DecimalValue(field, i - 1) + (field[i] - 48)

PyInt(field) ==
  IF field = None THEN Raised("TypeError")
  ELSE IF field = <<>> \/ \E i \in 1..Len(field) : field[i] \notin 48..57
       THEN Raised("ValueError")
       ELSE Returned(DecimalValue(field, Len(field)))

\* row.get(key, "") or ""
OrEmpty(field) == IF field = None THEN <<>> ELSE field

\* The tuple appended to the batch for one CSV row.
SeedRow(article_id, rec) ==
  LET title == OrEmpty(rec.title)
      content == OrEmpty(rec.content)
  IN [id |-> article_id, title |-> title, content |-> content,
      embedding |-> import_embed_text(title \o <<10>> \o content, EMBEDDING_DIM).value]

AlreadySeededOffByOne(count) == count > 1

\* if count and count > 0
AlreadySeeded(count) == count > 0

FlushDueLate(batch, size) == Len(batch) > size

\* if len(batch) >= BATCH_SIZE
FlushDue(batch, size) == Len(batch) >= size

\* A process about to call main(): nothing read (count -1), nothing written.
\* prev is how the run before it ended.
FreshRun(attempt, prev) ==
  [pc |-> "start", pos |-> 0, batch |-> <<>>, count |-> -1, flushes |-> 0,
   commits |-> 0, analyzed |-> FALSE, attempt |-> attempt, prev |-> prev]

\* if not RUN_SEED: return;  if not os.path.exists(CSV_PATH): return
IngestStart(r) ==
  /\ seed[r].pc = "start"
  /\ seed' = [seed EXCEPT ![r].pc = IF RUN_SEED /\ csvExists THEN "check" ELSE "skip"]
  /\ UNCHANGED <<embedVars, configVars, articles, create, update, deletes, search>>

\* SELECT COUNT(*) FROM articles, and the already-seeded guard.
IngestCheck(r) ==
  /\ seed[r].pc = "check"
  /\ LET count == BagCardinality(articles)
     IN seed' = [seed EXCEPT ![r].count = count,
                             ![r].pc = IF AlreadySeeded(count) THEN "skip" ELSE "stream"]
  /\ UNCHANGED <<embedVars, configVars, articles, create, update, deletes, search>>

\* One turn of "for row in reader": parse, embed, append, flush a full batch.
IngestRow(r) ==
  /\ seed[r].pc = "stream"
  /\ seed[r].pos < Len(stream)
  /\ LET rec == stream[seed[r].pos + 1]
         article_id == PyInt(rec.id)
     IN IF article_id.raised # ""
        THEN /\ seed' = [seed EXCEPT ![r].pc = "failed", ![r].pos = @ + 1]
             /\ UNCHANGED articles
        ELSE LET batch == Append(seed[r].batch, SeedRow(article_id.value, rec))
                 res == ExecuteManyCommit(articles, batch)
             IN IF ~FlushDue(batch, BATCH_SIZE)
                THEN /\ seed' = [seed EXCEPT ![r].batch = batch, ![r].pos = @ + 1]
                     /\ UNCHANGED articles
                ELSE IF res.ok
                THEN /\ articles' = res.table
                     /\ seed' = [seed EXCEPT ![r].batch = <<>>, ![r].pos = @ + 1,
                                             ![r].flushes = @ + 1, ![r].commits = @ + 1]
                ELSE /\ seed' = [seed EXCEPT ![r].pc = "failed", ![r].pos = @ + 1]
                     /\ UNCHANGED articles
  /\ UNCHANGED <<embedVars, configVars, create, update, deletes, search>>

IngestFinalFlushForgotten(r) ==
  /\ seed[r].pc = "stream"
  /\ seed[r].pos = Len(stream)
  /\ seed' = [seed EXCEPT ![r].pc = "analyze"]
  /\ UNCHANGED <<embedVars, configVars, articles, create, update, deletes, search>>

\* After the loop: "if batch:" flush what is left.
IngestFinalFlush(r) ==
  /\ seed[r].pc = "stream"
  /\ seed[r].pos = Len(stream)
  /\ LET res == ExecuteManyCommit(articles, seed[r].batch)
     IN IF seed[r].batch = <<>>
        THEN /\ seed' = [seed EXCEPT ![r].pc = "analyze"]
             /\ UNCHANGED articles
        ELSE IF res.ok
        THEN /\ articles' = res.table
             /\ seed' = [seed EXCEPT ![r].pc = "analyze", ![r].flushes = @ + 1,
                                     ![r].commits = @ + 1]
        ELSE /\ seed' = [seed EXCEPT ![r].pc = "failed"]
             /\ UNCHANGED articles
  /\ UNCHANGED <<embedVars, configVars, create, update, deletes, search>>

\* cur.execute("ANALYZE articles;"); conn.commit()
IngestAnalyze(r) ==
  /\ seed[r].pc = "analyze"
  /\ seed' = [seed EXCEPT ![r].pc = "done", ![r].analyzed = TRUE, ![r].commits = @ + 1]
  /\ UNCHANGED <<embedVars, configVars, articles, create, update, deletes, search>>

\* The process dies, or a store call raises OperationalError, while the
\* connection is open: the exception leaves "with psycopg.connect(...)", which
\* rolls back what was not committed.  The batch is lost with the process.
IngestCrash(r) ==
  /\ seed[r].pc \in {"check", "stream", "analyze"}
  /\ seed' = [seed EXCEPT ![r].pc = "crashed"]
  /\ UNCHANGED <<embedVars, configVars, articles, create, update, deletes, search>>

Ended == {"done", "skip", "failed", "crashed"}

\* The script is run again (if __name__ == "__main__": main()).
IngestRerun(r) ==
  /\ seed[r].pc \in Ended
  /\ seed[r].attempt < MaxAttempts
  /\ seed' = [seed EXCEPT ![r] = FreshRun(seed[r].attempt + 1, seed[r].pc)]
  /\ UNCHANGED <<embedVars, configVars, articles, create, update, deletes, search>>

(***************************************************************************)
(* app/main.py: the article handlers.                                      *)
(***************************************************************************)
\* A call not yet made; an answered call keeps only its outcome in pc.
IdleCall == [pc |-> "idle", id |-> 0, title |-> <<>>, content |-> <<>>]

\* Bodies of POST /articles (title and content of min_length 1): "A","a" and
\* HIRAGANA A," ".
CreateBodies ==
  {[title |-> <<65>>, content |-> <<97>>], [title |-> <<12354>>, content |-> <<32>>]}

\* Bodies of PUT /articles/{id}: a title alone, a content alone, both.
UpdateBodies ==
  {[title |-> <<12354>>, content |-> None], [title |-> None, content |-> <<32>>],
   [title |-> <<65>>, content |-> <<97>>]}

\* SELECT COALESCE(MAX(id), 0) + 1 FROM articles
NextId(table) ==
  IF Ids(table) = {} THEN 1
  ELSE (CHOOSE m \in Ids(table) : \A k \in Ids(table) : k <= m) + 1

\* The row POST /articles inserts: emb = embed_text(f"{title}\n{content}").
CreatedRow(id, title, content) ==
  [id |-> id, title |-> title, content |-> content,
   embedding |-> main_embed_text(title \o <<10>> \o content, EMBEDDING_DIM).value]

\* The INSERT takes its snapshot and evaluates the id subquery on it.
CreateEvaluate(c) ==
  /\ create[c].pc = "idle"
  /\ \E payload \in CreateBodies :
       create' = [create EXCEPT ![c] = [pc |-> "evaluated", id |-> NextId(articles),
                                        title |-> payload.title,
                                        content |-> payload.content]]
  /\ UNCHANGED <<embedVars, configVars, articles, seed, update, deletes, search>>

\* The INSERT adds the row and the handler commits, or the primary key
\* rejects the id (UniqueViolation: the call fails).
CreateInsert(c) ==
  /\ create[c].pc = "evaluated"
  /\ LET row == CreatedRow(create[c].id, create[c].title, create[c].content)
         res == ExecuteManyCommit(articles, <<row>>)
     IN /\ articles' = res.table
        /\ create' = [create EXCEPT ![c] = [IdleCall EXCEPT !.pc = IF res.ok THEN "done" ELSE "conflict"]]
  /\ UNCHANGED <<embedVars, configVars, seed, update, deletes, search>>

UpdatedRowContentOnly(id, title, content) ==
  [id |-> id, title |-> title, content |-> content,
   embedding |-> main_embed_text(content, EMBEDDING_DIM).value]

\* The values PUT /articles/{id} writes: emb = embed_text(f"{title}\n{content}").
UpdatedRow(id, title, content) ==
  [id |-> id, title |-> title, content |-> content,
   embedding |-> main_embed_text(title \o <<10>> \o content, EMBEDDING_DIM).value]

\* The table without the rows of one id.
Without(table, id) ==
  [row \in {x \in BagToSet(table) : x.id # id} |-> table[row]]

\* SELECT ... WHERE id = %s, 404 when there is no row, and the merge of the
\* payload (None: field not supplied) with the row read.
UpdateSelect(u) ==
  /\ update[u].pc = "idle"
  /\ \E id \in Ids(articles) \cup {0}, payload \in UpdateBodies :
       IF RowsWithId(articles, id) = {}
       THEN update' = [update EXCEPT ![u].pc = "notfound"]
       ELSE \E row \in RowsWithId(articles, id) :
              update' = [update EXCEPT ![u] =
                [pc |-> "selected", id |-> id,
                 title |-> IF payload.title # None THEN payload.title ELSE row.title,
                 content |-> IF payload.content # None THEN payload.content
                             ELSE row.content]]
  /\ UNCHANGED <<embedVars, configVars, articles, seed, create, deletes, search>>

\* UPDATE ... WHERE id = %s RETURNING ...; commit.  With the row gone the
\* UPDATE changes nothing and out[0] raises TypeError after the commit.
UpdateWrite(u) ==
  /\ update[u].pc = "selected"
  /\ LET id == update[u].id
         new == UpdatedRow(id, update[u].title, update[u].content)
         n == BagCardinality(articles) - BagCardinality(Without(articles, id))
     IN IF n = 0
        THEN /\ update' = [update EXCEPT ![u] = [IdleCall EXCEPT !.pc = "error"]]
             /\ UNCHANGED articles
        ELSE /\ update' = [update EXCEPT ![u] = [IdleCall EXCEPT !.pc = "done"]]
             /\ articles' = Without(articles, id) (+) [x \in {new} |-> n]
  /\ UNCHANGED <<embedVars, configVars, seed, create, deletes, search>>

\* DELETE FROM articles WHERE id = %s; 404 without a commit when rowcount = 0.
DeleteArticle ==
  /\ deletes < MaxDeletes
  /\ \E id \in Ids(articles) \cup {0} : articles' = Without(articles, id)
  /\ deletes' = deletes + 1
  /\ UNCHANGED <<embedVars, configVars, seed, create, update, search>>

(***************************************************************************)
(* app/main.py: semantic_search.  A distance is kept exactly, as           *)
(* [dot, den] denoting 1 - dot / sqrt(den); den = 0 is NaN.  max_distance  *)
(* is given in tenths.                                                     *)
(***************************************************************************)
RECURSIVE DotCounts(_, _, _, _)
DotCounts(a, b, lo, hi) ==
  IF lo > hi THEN 0
  ELSE IF lo = hi THEN a[lo][1] * b[lo][1]
  ELSE LET mid == (lo + hi) \div 2
       IN DotCounts(a, b, lo, mid) + DotCounts(a, b, mid + 1, hi)

\* pgvector's a <=> b: 1 - (a . b) / sqrt(|a|^2 |b|^2), NaN for a zero vector.
\* The divisor of a normalised vector cancels, so the counts decide it.
CosineDistance(a, b) ==
  [dot |-> DotCounts(a, b, 1, Len(a)),
   den |-> DotCounts(a, a, 1, Len(a)) * DotCounts(b, b, 1, Len(b))]

\* distance <= max_distance in SQL: false for NaN.
DistanceLeq(d, tenths) ==
  /\ d.den # 0
  /\ \/ tenths >= 10
     \/ 100 * d.dot * d.dot >= (10 - tenths) * (10 - tenths) * d.den

DistanceLess(d, tenths) ==
  /\ d.den # 0
  /\ \/ tenths > 10
     \/ /\ tenths < 10
        /\ 100 * d.dot * d.dot > (10 - tenths) * (10 - tenths) * d.den

\* d1 <= d2, for two distances that are not NaN.
NotAfter(d1, d2) == d1.dot * d1.dot * d2.den >= d2.dot * d2.dot * d1.den

Min(a, b) == IF a <= b THEN a ELSE b

Hit(row, qvec) ==
  [article |-> [id |-> row.id, title |-> row.title, content |-> row.content],
   distance |-> CosineDistance(row.embedding, qvec)]

semantic_search_Exclusive(table, q, limit, max_distance) ==
  LET qvec == main_embed_text(q, EMBEDDING_DIM).value
      matching == {row \in BagToSet(table) :
                     /\ row.embedding # NULL
                     /\ DistanceLess(CosineDistance(row.embedding, qvec), max_distance)}
      n == Cardinality(matching)
      ordered == {p \in [1..n -> matching] :
                    /\ \A i, j \in 1..n : i # j => p[i] # p[j]
                    /\ \A i, j \in 1..n : i < j =>
                         NotAfter(CosineDistance(p[i].embedding, qvec),
                                  CosineDistance(p[j].embedding, qvec))}
  IN {[i \in 1..Min(limit, n) |-> Hit(p[i], qvec)] : p \in ordered}

\* The hit lists the SELECT may return: WHERE embedding IS NOT NULL AND
\* distance <= max_distance, ORDER BY distance (ties in any order), LIMIT.
semantic_search(table, q, limit, max_distance) ==
  LET qvec == main_embed_text(q, EMBEDDING_DIM).value
      matching == {row \in BagToSet(table) :
                     /\ row.embedding # NULL
                     /\ DistanceLeq(CosineDistance(row.embedding, qvec), max_distance)}
      n == Cardinality(matching)
      ordered == {p \in [1..n -> matching] :
                    /\ \A i, j \in 1..n : i # j => p[i] # p[j]
                    /\ \A i, j \in 1..n : i < j =>
                         NotAfter(CosineDistance(p[i].embedding, qvec),
                                  CosineDistance(p[j].embedding, qvec))}
  IN {[i \in 1..Min(limit, n) |-> Hit(p[i], qvec)] : p \in ordered}

\* q: "a", HIRAGANA A, "!" (no token), "a" space HIRAGANA A.
Queries == {<<97>>, <<12354>>, <<33>>, <<97, 32, 12354>>}

\* max_distance 0.0, 0.6 (the default), 1.0 and 2.0, in tenths.
MaxDistances == {0, 6, 10, 20}

NoSearch == [q |-> <<>>, limit |-> 0, max_distance |-> 0, hits |-> <<>>]

\* GET /articles/search with a valid q (min_length 1), limit and max_distance.
Search ==
  /\ search = NoSearch
  /\ \E q \in Queries, limit \in 1..MaxLimit, max_distance \in MaxDistances :
       \E hits \in semantic_search(articles, q, limit, max_distance) :
         search' = [q |-> q, limit |-> limit, max_distance |-> max_distance,
                    hits |-> hits]
  /\ UNCHANGED <<embedVars, configVars, articles, seed, create, update, deletes>>

(***************************************************************************)
(* Inputs.                                                                 *)
(***************************************************************************)
\* A, a, _, space, HIRAGANA LETTER A
Alphabet == {65, 97, 95, 32, 12354}

Strings == UNION {[1..n -> Alphabet] : n \in 0..MaxTextLen}

Dims == (1..MaxDim) \cup {DefaultDim}

\* The title and content columns of CSV row i: "A","a" / missing,HIRAGANA A /
\* "_","" in turn.
CsvText(i) ==
  CASE i % 3 = 1 -> [title |-> <<65>>, content |-> <<97>>]
    [] i % 3 = 2 -> [title |-> None, content |-> <<12354>>]
    [] OTHER -> [title |-> <<95>>, content |-> <<>>]

\* The id column of CSV row i: the decimal digit i, the text "x", or no field.
CsvId(i, kind) ==
  CASE kind = "number" -> <<48 + i>>
    [] kind = "text" -> <<120>>
    [] OTHER -> None

CsvOf(kinds) ==
  [i \in 1..Len(kinds) |->
     [id |-> CsvId(i, kinds[i]), title |-> CsvText(i).title,
      content |-> CsvText(i).content]]

Csvs == {CsvOf(kinds) :
           kinds \in UNION {[1..n -> {"number", "text", "missing"}] : n \in 0..MaxRecords}}

WellFormedCsvs == {CsvOf([i \in 1..n |-> "number"]) : n \in 0..MaxRecords}

WellFormed(csv) == \A i \in 1..Len(csv) : PyInt(csv[i].id).raised = ""

EmbedIdle ==
  /\ text = <<>>
  /\ dim = 1
  /\ outMain = NotCalled
  /\ outImport = NotCalled

ApiIdle ==
  /\ create = [c \in Creators |-> IdleCall]
  /\ update = [u \in Updaters |-> IdleCall]
  /\ deletes = 0
  /\ search = NoSearch

(***************************************************************************)
(* SpecEmbed: the two embedding functions on every bounded input.          *)
(***************************************************************************)
InitEmbed ==
  /\ text \in Strings \cup {None}
  /\ dim \in Dims
  /\ outMain = NotCalled
  /\ outImport = NotCalled
  /\ EMBEDDING_DIM = DefaultDim
  /\ RUN_SEED = TRUE /\ csvExists = TRUE /\ stream = <<>> /\ BATCH_SIZE = 1
  /\ articles = EmptyBag
  /\ seed = [r \in Runs |-> FreshRun(1, "none")]
  /\ ApiIdle

CallMainEmbed ==
  /\ outMain = NotCalled
  /\ outMain' = main_embed_text(text, dim)
  /\ UNCHANGED <<text, dim, outImport, configVars, articles, seed, create, update,
                 deletes, search>>

CallImportEmbed ==
  /\ outImport = NotCalled
  /\ outImport' = import_embed_text(text, dim)
  /\ UNCHANGED <<text, dim, outMain, configVars, articles, seed, create, update,
                 deletes, search>>

NextEmbed == CallMainEmbed \/ CallImportEmbed

SpecEmbed == InitEmbed /\ [][NextEmbed]_vars

(***************************************************************************)
(* SpecIngest: one seeding process, run and run again, alone on the table. *)
(***************************************************************************)
InitIngest ==
  /\ EmbedIdle
  /\ EMBEDDING_DIM = MaxDim
  /\ RUN_SEED \in BOOLEAN
  /\ csvExists \in BOOLEAN
  /\ stream \in Csvs
  /\ BATCH_SIZE \in 1..MaxBatch
  /\ articles = EmptyBag
  /\ seed = [r \in Runs |-> FreshRun(1, "none")]
  /\ ApiIdle

NextIngest ==
  \/ IngestStart(1)
  \/ IngestCheck(1)
  \/ IngestRow(1)
  \/ IngestFinalFlush(1)
  \/ IngestAnalyze(1)
  \/ IngestCrash(1)
  \/ IngestRerun(1)

SpecIngest == InitIngest /\ [][NextIngest]_vars

(***************************************************************************)
(* SpecSeed2: two seeding processes started together on an empty table.    *)
(***************************************************************************)
InitSeed2 ==
  /\ EmbedIdle
  /\ EMBEDDING_DIM = MaxDim
  /\ RUN_SEED = TRUE
  /\ csvExists = TRUE
  /\ stream \in WellFormedCsvs
  /\ BATCH_SIZE \in 1..MaxBatch
  /\ articles = EmptyBag
  /\ seed = [r \in Runs |-> FreshRun(1, "none")]
  /\ ApiIdle

NextSeed2 ==
  \E r \in Runs :
    \/ IngestStart(r)
    \/ IngestCheck(r)
    \/ IngestRow(r)
    \/ IngestFinalFlush(r)
    \/ IngestAnalyze(r)

SpecSeed2 == InitSeed2 /\ [][NextSeed2]_vars

(***************************************************************************)
(* SpecSearch: semantic_search on every bounded table.                     *)
(***************************************************************************)
\* What row i of the table holds: nothing (0), one of three texts with its
\* embedding, the first text with a NULL embedding (4), or a text without a
\* token, whose embedding is the zero vector (5).
DocChoices == 0..5

DocRow(i, choice) ==
  LET title == CASE choice = 2 -> <<12354>> [] choice = 3 -> <<95>>
                 [] choice = 5 -> <<33>> [] OTHER -> <<65>>
      content == IF choice \in {2, 5} THEN <<32>> ELSE <<97>>
  IN [id |-> i, title |-> title, content |-> content,
      embedding |-> IF choice = 4 THEN NULL
                    ELSE main_embed_text(title \o <<10>> \o content, MaxDim).value]

InitSearch ==
  /\ EmbedIdle
  /\ EMBEDDING_DIM = MaxDim
  /\ RUN_SEED = TRUE /\ csvExists = TRUE /\ stream = <<>> /\ BATCH_SIZE = 1
  /\ \E choice \in [1..MaxDocs -> DocChoices] :
       articles = SetToBag({DocRow(i, choice[i]) : i \in {k \in 1..MaxDocs : choice[k] # 0}})
  /\ seed = [r \in Runs |-> FreshRun(1, "none")]
  /\ ApiIdle

NextSearch == Search

SpecSearch == InitSearch /\ [][NextSearch]_vars

(***************************************************************************)
(* Spec: the API's handlers and the seeding script on one table.           *)
(***************************************************************************)
Init ==
  /\ EmbedIdle
  /\ EMBEDDING_DIM = MaxDim
  /\ RUN_SEED = TRUE
  /\ csvExists = TRUE
  /\ stream = CsvOf(<<"number", "number">>)
  /\ BATCH_SIZE = 1
  /\ articles = EmptyBag
  /\ seed = [r \in Runs |-> FreshRun(1, "none")]
  /\ ApiIdle

Next ==
  \/ \E c \in {1} : CreateEvaluate(c) \/ CreateInsert(c)    \* one POST call
  \/ \E u \in Updaters : UpdateSelect(u) \/ UpdateWrite(u)
  \/ DeleteArticle
  \/ IngestStart(1)
  \/ IngestCheck(1)
  \/ IngestRow(1)
  \/ IngestFinalFlush(1)
  \/ IngestAnalyze(1)

Spec == Init /\ [][Next]_vars

(***************************************************************************)
(* SpecCreate: concurrent POST /articles calls, and deletes.               *)
(***************************************************************************)
\* The table is empty or holds what a seeding run committed: CSV rows 1..n.
InitCreate ==
  /\ EmbedIdle
  /\ EMBEDDING_DIM = MaxDim
  /\ RUN_SEED = TRUE
  /\ csvExists = TRUE
  /\ stream = CsvOf(<<"number", "number">>)
  /\ BATCH_SIZE = 1
  /\ \E n \in 0..2 :
       articles = SetToBag({SeedRow(i, CsvOf(<<"number", "number">>)[i]) : i \in 1..n})
  /\ seed = [r \in Runs |-> FreshRun(1, "none")]
  /\ ApiIdle

NextCreate ==
  \/ \E c \in Creators : CreateEvaluate(c) \/ CreateInsert(c)
  \/ DeleteArticle

SpecCreate == InitCreate /\ [][NextCreate]_vars

(***************************************************************************)
(* The claims.                                                             *)
(***************************************************************************)
IsZeroVector(v) == \A i \in 1..Len(v) : v[i][1] = 0

CeilDiv(n, b) == (n + b - 1) \div b

\* Every row once, and no id on two rows.
PrimaryKeyHolds(table) ==
  /\ \A row \in BagToSet(table) : CopiesIn(row, table) = 1
  /\ \A x, y \in BagToSet(table) : x.id = y.id => x = y

\* The table holds CSV rows 1..n, each once, and nothing else.
HoldsFirst(table, n) ==
  /\ PrimaryKeyHolds(table)
  /\ BagToSet(table) = {SeedRow(i, stream[i]) : i \in 1..n}

\* C1: a seeding run that finds at least one row in the table ends through
\* the skip path and writes nothing: no INSERT, no commit, no ANALYZE, and
\* its step leaves the table as it was.
C1_SeededTableIsSkipped ==
  /\ [](\A r \in Runs : seed[r].count > 0 =>
          /\ seed[r].pc = "skip"
          /\ seed[r].flushes = 0 /\ seed[r].commits = 0 /\ ~seed[r].analyzed)
  /\ [][\A r \in Runs :
          (/\ seed[r].pc = "check" /\ seed'[r].pc \notin {"check", "crashed"}
           /\ BagCardinality(articles) > 0)
            => (seed'[r].pc = "skip" /\ articles' = articles)]_vars

C1_Witness ==
  /\ seed[1].pc = "skip" /\ seed[1].count > 1
  /\ seed[1].attempt = 2 /\ seed[1].prev = "done"

\* C2 as stated: a run over N well-formed records against an empty table
\* performs exactly ceil(N/B) commits and leaves exactly N rows.
C2_Original ==
  \A r \in Runs : (seed[r].pc = "done" /\ seed[r].count = 0) =>
    /\ seed[r].commits = CeilDiv(Len(stream), BATCH_SIZE)
    /\ BagCardinality(articles) = Len(stream)

\* C2, amended: such a run commits exactly ceil(N/B) batch INSERTs, then
\* commits once more for ANALYZE (ceil(N/B) + 1 commits in all), and leaves
\* exactly the N rows of the CSV.
C2_BatchCommits ==
  \A r \in Runs : (seed[r].pc = "done" /\ seed[r].count = 0) =>
    /\ seed[r].flushes = CeilDiv(Len(stream), BATCH_SIZE)
    /\ seed[r].commits = CeilDiv(Len(stream), BATCH_SIZE) + 1
    /\ BagCardinality(articles) = Len(stream)
    /\ HoldsFirst(articles, Len(stream))

C2_Witness ==
  /\ seed[1].pc = "done" /\ seed[1].count = 0
  /\ BATCH_SIZE > 1 /\ Len(stream) > BATCH_SIZE /\ Len(stream) % BATCH_SIZE # 0

\* C3: after a run that crashed or failed has been run again and that run
\* has ended, every record of a well-formed CSV is in the table exactly once.
C3_RetryStoresEveryRecord ==
  \A r \in Runs :
    (/\ seed[r].prev \in {"crashed", "failed"} /\ seed[r].pc \in {"done", "skip"}
     /\ RUN_SEED /\ csvExists /\ WellFormed(stream))
      => HoldsFirst(articles, Len(stream))

\* C4: the hit list is sorted by non-decreasing distance, holds only rows
\* with a non-NULL embedding within max_distance (inclusive), each once, has
\* at most limit entries, and leaves out a qualifying row only when it holds
\* limit rows at no greater distance.
C4_Ranking ==
  search # NoSearch =>
    LET hits == search.hits
        qvec == main_embed_text(search.q, EMBEDDING_DIM).value
        qualifies(row) ==
          /\ row.embedding # NULL
          /\ DistanceLeq(CosineDistance(row.embedding, qvec), search.max_distance)
    IN /\ Len(hits) <= search.limit
       /\ \A i, j \in 1..Len(hits) :
            /\ i < j => NotAfter(hits[i].distance, hits[j].distance)
            /\ i # j => hits[i].article.id # hits[j].article.id
       /\ \A i \in 1..Len(hits) :
            \E row \in BagToSet(articles) :
              /\ qualifies(row)
              /\ hits[i] = Hit(row, qvec)
       /\ \A row \in BagToSet(articles) :
            (qualifies(row) /\ \A i \in 1..Len(hits) : hits[i].article.id # row.id)
              => /\ Len(hits) = search.limit
                 /\ \A i \in 1..Len(hits) :
                      NotAfter(hits[i].distance, CosineDistance(row.embedding, qvec))

C4_Witness ==
  /\ search.limit = 2 /\ Len(search.hits) = 2 /\ search.max_distance = 10
  /\ ~NotAfter(search.hits[2].distance, search.hits[1].distance)
  /\ search.hits[2].distance.dot = 0
  /\ BagCardinality(articles) = 3
  /\ \E row \in BagToSet(articles) :
       row.embedding = NULL \/ (row.embedding # NULL /\ IsZeroVector(row.embedding))

\* C5: every stored row's embedding is embed_text of that row's own title,
\* a line feed, and its content.
C5_DerivedVector ==
  \A row \in BagToSet(articles) :
    row.embedding = main_embed_text(row.title \o <<10>> \o row.content, EMBEDDING_DIM).value

C5_Witness ==
  /\ update[1].pc = "done" /\ update[2].pc = "done"
  /\ create[1].pc = "done" /\ deletes = 1 /\ seed[1].pc = "done"
  /\ \E row \in BagToSet(articles) : row.title = <<12354>> /\ row.content = <<12354>>

\* C6: each embedding function, on every input (None and token-free text
\* included), returns without raising a vector of length dim, which is the
\* zero vector when the input yields no tokens.
C6_EmbeddingTotal ==
  \A out \in {outMain, outImport} :
    out # NotCalled =>
      /\ out.raised = ""
      /\ Len(out.value) = dim
      /\ (main_tokens(text) = <<>> => IsZeroVector(out.value))

\* C7: a run against an empty table whose first unparsable id is at row k
\* aborts there with the table holding exactly the first B * floor((k-1)/B)
\* rows, and issues no ANALYZE.
C7_FatalIdAbort ==
  \A r \in Runs : (seed[r].pc = "failed" /\ seed[r].count = 0) =>
    /\ ~WellFormed(stream)
    /\ PyInt(stream[seed[r].pos].id).raised # ""
    /\ \A j \in 1..(seed[r].pos - 1) : PyInt(stream[j].id).raised = ""
    /\ HoldsFirst(articles, BATCH_SIZE * ((seed[r].pos - 1) \div BATCH_SIZE))
    /\ ~seed[r].analyzed

C7_Witness ==
  /\ seed[1].pc = "failed" /\ seed[1].count = 0
  /\ BagCardinality(articles) >= 2
  /\ seed[1].pos - 1 > BagCardinality(articles)

\* C8: on every str and every dim > 0 the writer's and the API's embed_text
\* return the same vector.
C8_WriterReaderAgree ==
  (text # None /\ outMain # NotCalled /\ outImport # NotCalled)
    => (outMain = outImport /\ outMain.raised = "")

C8_Witness ==
  /\ text # None /\ Len(main_tokens(text)) >= 2
  /\ outMain # NotCalled /\ outImport # NotCalled
  /\ ~IsZeroVector(outImport.value)

\* C9: every POST /articles call succeeds with an id of its own: none fails
\* on the primary key, and no two rows share an id.
C9_EveryCreateSucceeds ==
  /\ \A c \in Creators : create[c].pc # "conflict"
  /\ PrimaryKeyHolds(articles)

\* C10: two seeding runs of one CSV never store a record twice, and once both
\* have ended the table holds exactly the records of the CSV.
C10_ConcurrentSeeding ==
  /\ PrimaryKeyHolds(articles)
  /\ (\A r \in Runs : seed[r].pc \in Ended) => HoldsFirst(articles, Len(stream))

C10_Witness ==
  /\ seed[1].pc = "failed" /\ seed[1].count = 0
  /\ seed[2].pc = "done" /\ seed[2].count = 0
  /\ Len(stream) > BATCH_SIZE

====
